---- MODULE Spec2Model ----
(***************************************************************************)
(* Model of art-of-rally-leaderboard-utils.                                *)
(*                                                                         *)
(*   Spec         the batched fetcher, http::download_all (src/http.rs),   *)
(*                together with the curl multi handle it drives, the       *)
(*                server it talks to and the disk cache.                   *)
(*   SpecResolve  the identity resolver and result assembler,              *)
(*                get_rally_results (src/lib.rs).                          *)
(*   SpecClassify the time classifier, split_times and fastest_times       *)
(*                (src/lib.rs).                                            *)
(*   SpecDiff     the snapshot diff, main and report (src/main.rs).        *)
(*                                                                         *)
(* Slots, tokens and stage indices are 1-based here (0-based in the Rust   *)
(* source).                                                                *)
(***************************************************************************)
EXTENDS Integers, Sequences, FiniteSets, TLC

\* ------------------------------------------------------------------ bounds
MaxUrls == 3
MaxVersion == 2

\* multi.set_max_total_connections(1)
MaxConnections == 1

\* ------------------------------------------------------------- fetcher data
GoodUrls == {"u1", "u2"}
\* a URL that request.url() rejects
BadUrl == "bad"
AllUrls == GoodUrls \cup {BadUrl}

RECURSIVE SeqsUpTo(_, _)
SeqsUpTo(S, n) ==
    IF n = 0 THEN {<<>>}
    ELSE LET shorter == SeqsUpTo(S, n - 1)
         IN  shorter \cup {Append(s, x) : s \in {t \in shorter : Len(t) = n - 1}, x \in S}

\* What the server holds for a URL: a document of the schema at some version,
\* a document that does not match the schema, or bytes that are not UTF-8.
ServerStates ==
    {[kind |-> "json", v |-> v] : v \in 1..MaxVersion}
        \cup {[kind |-> "undecodable", v |-> 0], [kind |-> "nonutf8", v |-> 0]}

\* The state of a transfer as held by its Easy2Handle<Collector>.
NoBody == [kind |-> "none", url |-> "", v |-> 0]
TransportError == [kind |-> "transport_error", url |-> "", v |-> 0]
BodyOf(url, s) == [kind |-> s.kind, url |-> url, v |-> s.v]

\* Option<Result<T, Whatever>>
None == [tag |-> "None", url |-> "", v |-> 0]
SomeOk(url, v) == [tag |-> "Ok", url |-> url, v |-> v]
SomeErr(url) == [tag |-> "Err", url |-> url, v |-> 0]

\* Option<Easy2Handle<Collector>>
NoHandle == [some |-> FALSE, body |-> NoBody]
NewHandle == [some |-> TRUE, body |-> NoBody]

\* A file of the cache directory.
NoFile == [exists |-> FALSE, text |-> <<>>]

VARIABLES
    pc,         \* position of the caller in download_all
    urls,       \* the argument of download_all
    cache,      \* AOR_UTILS_CACHE == "1"
    responses,  \* the result vector
    handles,    \* one Option<Easy2Handle> per URL seen so far
    progress,   \* position of the progress bar
    pending,    \* tokens added to the multi handle, transfer not started
    active,     \* tokens whose transfer holds a connection
    msgs,       \* completion messages of the multi handle, oldest first
    running,    \* the loop variable
    ret,        \* "none" | "ok" | "err": what download_all returned
    arrivals,   \* tokens in the order their messages were handled
    server,     \* what the server holds per URL
    disk        \* the cache directory, per URL (key: md5 of the URL)

fvars == <<pc, urls, cache, responses, handles, progress, pending, active,
           msgs, running, ret, arrivals, server, disk>>

VARIABLES
    rpc,                  \* position of the caller in get_rally_results
    leaderboard_results,  \* one slot per stage: the friends leaderboard
    ranks,                \* one slot per (user, stage): the world rank
    stage_idx,            \* number of stages the pairing loop has finished
    driver_results,       \* BTreeMap<String, Vec<Option<StageResult>>>
    stage_results         \* Vec<Vec<(String, StageResult)>>

rvars == <<rpc, leaderboard_results, ranks, stage_idx, driver_results,
           stage_results>>

VARIABLES
    cpc,                \* position of the caller of split_times / fastest_times
    rally,              \* the RallyResults handed to the classifier
    full_times,         \* Vec<FullTime>
    partial_times,      \* Vec<PartialTime>
    fastest_total,      \* Option<usize>
    fastest_per_stage   \* Vec<Option<usize>>

cvars == <<cpc, rally, full_times, partial_times, fastest_total,
           fastest_per_stage>>

VARIABLES
    dpc,                \* position of main / report
    db,                 \* the Db downloaded in this run
    prev,               \* Option<Db>: the latest stored snapshot
    table,              \* NotificationTable
    now,                \* the timestamp of this run of main
    data_paths,         \* the timestamps that name the files under data/
    data_last,          \* the text of the last of these files, if any
    prev_path,          \* Option: the timestamp of the file read into prev
    message             \* Option: the notification sent to the webhook

dvars == <<dpc, db, prev, table, now, data_paths, data_last, prev_path, message>>

vars == <<fvars, rvars, cvars, dvars>>

\* what the actions of one component leave alone
nonfvars == <<rvars, cvars, dvars>>
nonrvars == <<fvars, cvars, dvars>>
noncvars == <<fvars, rvars, dvars>>
nondvars == <<fvars, rvars, cvars>>

\* insert_cache / try_get_cache: serde_json::to_string_pretty, from_str
Serialize(resp) == [exists |-> TRUE, text |-> <<"json", resp.url, resp.v>>]
Deserialize(file) == SomeOk(file.text[2], file.text[3])

try_get_cache(d, url) ==
    IF url \in DOMAIN d /\ d[url].exists THEN Deserialize(d[url]) ELSE None

insert_cache(d, url, resp) == [d EXCEPT ![url] = Serialize(resp)]

\* The slot a completion message is written to.
SlotByArrival(token, handled) == handled + 1
SlotOf(token, handled) == token

\* The value the messages callback stores for a finished transfer.
DecodeSwallowsError(url, body) ==
    CASE body.kind = "transport_error" -> None
      [] body.kind = "json" -> SomeOk(body.url, body.v)
      [] OTHER -> None
Decode(url, body) ==
    CASE body.kind = "transport_error" -> SomeErr(url)
      [] body.kind = "json" -> SomeOk(body.url, body.v)
      [] OTHER -> None

\* The body of the closure passed to multi.messages, for one message.
HandleMessage(st, token) ==
    LET body == handles[token].body
        slot == SlotOf(token, Len(st.arrivals))
        resp == Decode(urls[token], body)
    IN  IF body.kind = "nonutf8"
        THEN [st EXCEPT !.progress = @ + 1, !.panicked = TRUE]
        ELSE [st EXCEPT
                !.progress = @ + 1,
                !.arrivals = Append(@, token),
                !.responses = [@ EXCEPT ![slot] = resp],
                !.disk = IF cache /\ resp.tag = "Ok"
                         THEN insert_cache(@, urls[token], resp) ELSE @]

RECURSIVE Drain(_, _)
Drain(st, q) ==
    IF q = <<>> \/ st.panicked THEN st
    ELSE Drain(HandleMessage(st, Head(q)), Tail(q))

\* multi.perform() returns the number of transfers not yet finished.
RunningHandles == Cardinality(pending) + Cardinality(active)

KeepRunningOffByOne(n) == n > 1
KeepRunning(n) == n # 0

FetchInit ==
    /\ pc = "idle"
    /\ urls = <<>>
    /\ cache = FALSE
    /\ responses = <<>>
    /\ handles = <<>>
    /\ progress = 0
    /\ pending = {}
    /\ active = {}
    /\ msgs = <<>>
    /\ running = FALSE
    /\ ret = "none"
    /\ arrivals = <<>>
    /\ server \in [GoodUrls -> ServerStates]
    /\ disk = [u \in GoodUrls |-> NoFile]

\* The leaderboards change between two fetch cycles.
ServerChange ==
    /\ pc = "idle"
    /\ \E u \in GoodUrls, s \in ServerStates :
         /\ server[u] # s
         /\ server' = [server EXCEPT ![u] = s]
    /\ UNCHANGED <<pc, urls, cache, responses, handles, progress, pending,
                   active, msgs, running, ret, arrivals, disk>>
    /\ UNCHANGED nonfvars

\* download_all is called: lines 63-81.
Call ==
    /\ pc = "idle"
    /\ \E us \in SeqsUpTo(AllUrls, MaxUrls), c \in BOOLEAN :
         /\ urls' = us
         /\ cache' = c
         /\ responses' = [i \in 1..Len(us) |-> None]
    /\ handles' = <<>>
    /\ progress' = 0
    /\ pending' = {}
    /\ active' = {}
    /\ msgs' = <<>>
    /\ running' = TRUE
    /\ ret' = "none"
    /\ arrivals' = <<>>
    /\ pc' = "setup"
    /\ UNCHANGED <<server, disk>>
    /\ UNCHANGED nonfvars

\* One element of the iterator chain of lines 82-100: a cache hit fills the
\* slot, a miss starts a request.
SetupHit ==
    /\ pc = "setup"
    /\ Len(handles) < Len(urls)
    /\ LET token == Len(handles) + 1
           hit == IF cache THEN try_get_cache(disk, urls[token]) ELSE None
       IN  /\ hit # None
           /\ progress' = progress + 1
           /\ responses' = [responses EXCEPT ![token] = hit]
           /\ handles' = Append(handles, NoHandle)
    /\ UNCHANGED <<pc, urls, cache, pending, active, msgs, running, ret,
                   arrivals, server, disk>>
    /\ UNCHANGED nonfvars

SetupMiss ==
    /\ pc = "setup"
    /\ Len(handles) < Len(urls)
    /\ LET token == Len(handles) + 1
           hit == IF cache THEN try_get_cache(disk, urls[token]) ELSE None
       IN  /\ hit = None
           /\ urls[token] # BadUrl
           /\ handles' = Append(handles, NewHandle)
           /\ pending' = pending \cup {token}
    /\ UNCHANGED <<pc, urls, cache, responses, progress, active, msgs,
                   running, ret, arrivals, server, disk>>
    /\ UNCHANGED nonfvars

\* download() fails (request.url or multi.add2): collect::<Result<_, _>>()?
\* returns the error from download_all.
SetupFail ==
    /\ pc = "setup"
    /\ Len(handles) < Len(urls)
    /\ LET token == Len(handles) + 1
           hit == IF cache THEN try_get_cache(disk, urls[token]) ELSE None
       IN  /\ hit = None
           /\ \E add2_fails \in BOOLEAN : urls[token] = BadUrl \/ add2_fails
    /\ pending' = {}
    /\ ret' = "err"
    /\ pc' = "done"
    /\ UNCHANGED <<urls, cache, responses, handles, progress, active, msgs,
                   running, arrivals, server, disk>>
    /\ UNCHANGED nonfvars

EnterLoop ==
    /\ pc = "setup"
    /\ Len(handles) = Len(urls)
    /\ pc' = "perform"
    /\ UNCHANGED <<urls, cache, responses, handles, progress, pending, active,
                   msgs, running, ret, arrivals, server, disk>>
    /\ UNCHANGED nonfvars

\* Inside multi.perform(): the multi handle starts a queued transfer when a
\* connection is free.
CurlStart ==
    /\ pc = "perform"
    /\ Cardinality(active) < MaxConnections
    /\ \E t \in pending :
         /\ pending' = pending \ {t}
         /\ active' = active \cup {t}
    /\ UNCHANGED <<pc, urls, cache, responses, handles, progress, msgs,
                   running, ret, arrivals, server, disk>>
    /\ UNCHANGED nonfvars

\* Inside multi.perform(): a transfer finishes, with the server's answer or
\* with a transport error, and its message is queued.
CurlComplete ==
    /\ pc = "perform"
    /\ \E t \in active, failed \in BOOLEAN :
         /\ active' = active \ {t}
         /\ handles' = [handles EXCEPT ![t].body =
                          IF failed THEN TransportError
                          ELSE BodyOf(urls[t], server[urls[t]])]
         /\ msgs' = Append(msgs, t)
    /\ UNCHANGED <<pc, urls, cache, responses, progress, pending, running,
                   ret, arrivals, server, disk>>
    /\ UNCHANGED nonfvars

\* Line 104-106.
PerformReturn ==
    /\ pc = "perform"
    /\ running' = KeepRunning(RunningHandles)
    /\ pc' = "messages"
    /\ UNCHANGED <<urls, cache, responses, handles, progress, pending, active,
                   msgs, ret, arrivals, server, disk>>
    /\ UNCHANGED nonfvars

\* Line 104: multi.perform() itself fails.
PerformError ==
    /\ pc = "perform"
    /\ ret' = "err"
    /\ pc' = "done"
    /\ UNCHANGED <<urls, cache, responses, handles, progress, pending, active,
                   msgs, running, arrivals, server, disk>>
    /\ UNCHANGED nonfvars

\* Lines 107-135: multi.messages drains the queue, then the loop condition,
\* then line 137.
Messages ==
    /\ pc = "messages"
    /\ LET st == Drain([responses |-> responses, disk |-> disk,
                        progress |-> progress, arrivals |-> arrivals,
                        panicked |-> FALSE], msgs)
       IN  /\ responses' = st.responses
           /\ disk' = st.disk
           /\ progress' = st.progress
           /\ arrivals' = st.arrivals
           /\ pc' = IF st.panicked THEN "panic"
                    ELSE IF running THEN "perform" ELSE "done"
           /\ ret' = IF ~st.panicked /\ ~running THEN "ok" ELSE ret
    /\ msgs' = <<>>
    /\ UNCHANGED <<urls, cache, handles, pending, active, running, server>>
    /\ UNCHANGED nonfvars

\* The caller is back (or the process was restarted after a panic).
Restart ==
    /\ pc \in {"done", "panic"}
    /\ pc' = "idle"
    /\ urls' = <<>>
    /\ cache' = FALSE
    /\ responses' = <<>>
    /\ handles' = <<>>
    /\ progress' = 0
    /\ pending' = {}
    /\ active' = {}
    /\ msgs' = <<>>
    /\ running' = FALSE
    /\ ret' = "none"
    /\ arrivals' = <<>>
    /\ UNCHANGED <<server, disk>>
    /\ UNCHANGED nonfvars

FetchNext ==
    \/ ServerChange
    \/ Call
    \/ SetupHit
    \/ SetupMiss
    \/ SetupFail
    \/ EnterLoop
    \/ CurlStart
    \/ CurlComplete
    \/ PerformReturn
    \/ PerformError
    \/ Messages
    \/ Restart

\* ------------------------------------------------------ fetcher properties
Returned == pc = "done" /\ ret = "ok"
Slots == 1..Len(urls)
OutOfOrder == \E a, b \in 1..Len(arrivals) : a < b /\ arrivals[a] > arrivals[b]
Handled(i) == \E a \in 1..Len(arrivals) : arrivals[a] = i

\* The outcome of the request for the URL of slot i: the cached payload when
\* the request was answered from the cache, else what its transfer produced.
OutcomeOf(i) ==
    IF ~handles[i].some THEN SomeOk(urls[i], disk[urls[i]].text[3])
    ELSE CASE handles[i].body.kind = "transport_error" -> SomeErr(urls[i])
           [] handles[i].body.kind = "json" -> SomeOk(urls[i], handles[i].body.v)
           [] OTHER -> None

\* C1: when download_all returns its list, the list has one slot per input
\* URL and slot i holds the outcome of the request for URL i, whatever the
\* order in which the transfers completed.
C1_SlotPerUrlInOrder ==
    Returned =>
        /\ Len(responses) = Len(urls)
        /\ \A i \in Slots : responses[i] = OutcomeOf(i)

C1_Witness ==
    /\ Returned
    /\ Len(urls) = 3
    /\ OutOfOrder
    /\ \E i, j \in Slots : responses[i] # responses[j]

\* C2: when exactly the transfer for URL k fails and every other request
\* yields a decodable payload, the returned list has N slots, slot k is an
\* error and every other slot is a decoded payload, in any completion order.
TransferFailed == {i \in Slots : handles[i].some /\ handles[i].body.kind = "transport_error"}
Decodable(i) == ~handles[i].some \/ handles[i].body.kind = "json"

C2_OnlyFailedSlotIsError ==
    \A k \in Slots :
        (/\ Returned
         /\ TransferFailed = {k}
         /\ \A i \in Slots \ {k} : Decodable(i))
        => /\ Len(responses) = Len(urls)
           /\ responses[k].tag = "Err"
           /\ \A i \in Slots \ {k} : responses[i].tag = "Ok"

C2_Witness ==
    /\ Returned
    /\ Len(urls) = 3
    /\ TransferFailed = {2}
    /\ \A i \in {1, 3} : Decodable(i) /\ handles[i].some
    /\ OutOfOrder

\* C3: a URL that cannot be turned into a request in one slot does not fail
\* the batch: the list is returned, that slot is an error and the other URLs
\* are fetched.
C3_BadSlotConfined ==
    (pc = "done" /\ \E k \in Slots : urls[k] = BadUrl)
    => /\ ret = "ok"
       /\ \A i \in Slots : urls[i] = BadUrl => responses[i].tag = "Err"
       /\ \A i \in Slots : urls[i] # BadUrl => responses[i] = OutcomeOf(i)

\* C4: when download_all returns, every slot holds a decoded payload or an
\* error; a transferred response that does not decode is an error in its
\* slot and no slot is left empty.
C4_NoEmptySlot ==
    Returned =>
        \A i \in Slots :
            /\ responses[i].tag \in {"Ok", "Err"}
            /\ (handles[i].some /\ handles[i].body.kind = "undecodable")
                   => responses[i].tag = "Err"

\* C5: with the cache enabled download_all returns what it returns with the
\* cache disabled, i.e. for every slot the result of a transfer of that URL
\* against the server as it is now.
UncachedOutcomes(url) ==
    {SomeErr(url)} \cup
    (IF url \in GoodUrls /\ server[url].kind # "nonutf8"
     THEN {Decode(url, BodyOf(url, server[url]))} ELSE {})

C5_CacheTransparent ==
    (Returned /\ cache) =>
        \A i \in Slots : responses[i] \in UncachedOutcomes(urls[i])

\* C6: at most MaxConnections transfers are in flight at any time, and the
\* list is returned only when every started transfer has completed and its
\* message has been handled.
C6_BoundedAndComplete ==
    /\ Cardinality(active) <= MaxConnections
    /\ Returned =>
          /\ pending = {} /\ active = {} /\ msgs = <<>>
          /\ progress = Len(urls)
          /\ \A i \in Slots : handles[i].some => Handled(i)

C6_Witness ==
    /\ Returned
    /\ Len(arrivals) = 3
    /\ progress = 3

\* =================================================== get_rally_results
\* The configured drivers (user_names, in configuration order) and the
\* stages of the rally (leaderboards).
user_names == <<"a", "b", "c">>
leaderboards == <<"s1", "s2">>

NumUsers == Len(user_names)
NumStages == Len(leaderboards)
NameSet == {user_names[u] : u \in 1..NumUsers}

\* bounds of the resolver's inputs
MaxEntries == 3
MaxWorldRank == 3

\* A slot of a download_all result as get_rally_results reads it: it either
\* holds a decoded value or it does not (transfer error, undecodable).
FailedBoard == [ok |-> FALSE, entries |-> <<>>]
OkBoard(es) == [ok |-> TRUE, entries |-> es]
FailedRank == [ok |-> FALSE, rank |-> 0]
OkRank(r) == [ok |-> TRUE, rank |-> r]

\* LeaderboardEntry; the friends query numbers its rows 1..n.
Entry(r) == [rank |-> r, score |-> 100 + 50 * (r - 1), car_id |-> r]

\* Option<StageResult>
NoResult == [some |-> FALSE, car |-> 0, time_ms |-> 0, local_rank |-> 0, world_rank |-> 0]
StageResultRankByWorld(entry, world_rank) ==
    [some |-> TRUE, car |-> entry.car_id, time_ms |-> entry.score,
     local_rank |-> world_rank, world_rank |-> world_rank]
StageResult(entry, world_rank) ==
    [some |-> TRUE, car |-> entry.car_id, time_ms |-> entry.score,
     local_rank |-> entry.rank, world_rank |-> world_rank]

Permutations1(n) ==
    {f \in [1..n -> 1..n] : \A i, j \in 1..n : i # j => f[i] # f[j]}

\* The responses the leaderboard service can give for one stage.
BoardSlots ==
    {FailedBoard} \cup
    UNION {{OkBoard([i \in 1..n |-> Entry(f[i])]) : f \in Permutations1(n)} : n \in 0..MaxEntries}

RankSlots == {FailedRank} \cup {OkRank(r) : r \in 1..MaxWorldRank}

\* Index of (user u, stage s) in the users-by-leaderboards batch.
RankIndex(u, s) == (u - 1) * NumStages + s

\* The rank responses for a batch: two drivers never share a position of
\* one stage's world leaderboard.
RankBatches ==
    {b \in [1..(NumUsers * NumStages) -> RankSlots] :
        \A s \in 1..NumStages : \A u, w \in 1..NumUsers :
            (u # w /\ b[RankIndex(u, s)].ok /\ b[RankIndex(w, s)].ok)
                => b[RankIndex(u, s)].rank # b[RankIndex(w, s)].rank}

\* slice::chunks_exact
chunks_exact(seq, n) ==
    [c \in 1..(Len(seq) \div n) |-> [i \in 1..n |-> seq[(c - 1) * n + i]]]

\* Stable sort of a sequence of [key, val] records by key (sort_by_key).
RECURSIVE InsertKeyed(_, _)
InsertKeyed(x, sorted) ==
    IF sorted = <<>> THEN <<x>>
    ELSE IF x.key < Head(sorted).key THEN <<x>> \o sorted
    ELSE <<Head(sorted)>> \o InsertKeyed(x, Tail(sorted))

RECURSIVE SortKeyed(_)
SortKeyed(seq) ==
    IF seq = <<>> THEN <<>>
    ELSE InsertKeyed(seq[Len(seq)], SortKeyed(SubSeq(seq, 1, Len(seq) - 1)))

Vals(seq) == [i \in 1..Len(seq) |-> seq[i].val]

SortByRank(seq) ==
    Vals(SortKeyed([i \in 1..Len(seq) |-> [key |-> seq[i].rank, val |-> seq[i]]]))

RECURSIVE Flatten(_)
Flatten(seqs) == IF seqs = <<>> THEN <<>> ELSE Head(seqs) \o Flatten(Tail(seqs))

Min2(a, b) == IF a < b THEN a ELSE b

\* Lines 107-119: rank_urls, the cartesian product of the users and the
\* leaderboards, as the (user, leaderboard) each URL asks for.
rank_urls ==
    Flatten([u \in 1..NumUsers |->
                [s \in 1..NumStages |-> [user |-> u, board |-> s]]])

\* Lines 145-149: the Ok ranks of the stage in user order (flat_map drops
\* the slots that hold no rank), zipped with user_names.
ZippedWorldRanks(rs, s) ==
    LET world_rank_by_user == chunks_exact(rs, NumStages)
        oks == Flatten([u \in 1..Len(world_rank_by_user) |->
                          IF world_rank_by_user[u][s].ok
                          THEN <<world_rank_by_user[u][s]>> ELSE <<>>])
    IN  [i \in 1..Min2(Len(oks), NumUsers) |->
            [rank |-> oks[i].rank, name |-> user_names[i]]]

\* Lines 145-150.
UnsortedWorldRanks(rs, s) == ZippedWorldRanks(rs, s)
sorted_world_ranks(rs, s) == SortByRank(ZippedWorldRanks(rs, s))

\* Lines 154-162: entry(name).or_insert_with(..)[stage_idx] = Some(..)
SetResultReversed(dr, name, s, res) ==
    IF name \in DOMAIN dr
    THEN [dr EXCEPT ![name][NumStages + 1 - s] = res]
    ELSE dr @@ (name :> [[i \in 1..NumStages |-> NoResult] EXCEPT ![NumStages + 1 - s] = res])
SetResult(dr, name, s, res) ==
    IF name \in DOMAIN dr
    THEN [dr EXCEPT ![name][s] = res]
    ELSE dr @@ (name :> [[i \in 1..NumStages |-> NoResult] EXCEPT ![s] = res])

\* Lines 152-163: the loop over the sorted entries; next().unwrap() panics
\* when the world ranks run out.
RECURSIVE PairEntries(_, _, _, _)
PairEntries(dr, entries, wrs, s) ==
    IF entries = <<>> THEN [panicked |-> FALSE, dr |-> dr]
    ELSE IF wrs = <<>> THEN [panicked |-> TRUE, dr |-> dr]
    ELSE PairEntries(SetResult(dr, Head(wrs).name, s,
                               StageResult(Head(entries), Head(wrs).rank)),
                     Tail(entries), Tail(wrs), s)

\* Lines 166-177: per stage, the (driver, result) pairs in map order, then
\* sorted by time.
StageRows(dr, s) ==
    LET rows == Flatten([u \in 1..NumUsers |->
                    IF user_names[u] \in DOMAIN dr /\ dr[user_names[u]][s].some
                    THEN <<[name |-> user_names[u], result |-> dr[user_names[u]][s]]>>
                    ELSE <<>>])
    IN  Vals(SortKeyed([i \in 1..Len(rows) |->
                           [key |-> rows[i].result.time_ms, val |-> rows[i]]]))

EmptyMap == [n \in {} |-> <<>>]

ResolveIdle ==
    /\ rpc = "off"
    /\ leaderboard_results = <<>>
    /\ ranks = <<>>
    /\ stage_idx = 0
    /\ driver_results = EmptyMap
    /\ stage_results = <<>>

ResolveInit ==
    /\ rpc = "start"
    /\ leaderboard_results = <<>>
    /\ ranks = <<>>
    /\ stage_idx = 0
    /\ driver_results = EmptyMap
    /\ stage_results = <<>>

\* Line 104: the friends leaderboards, one request per stage.
GetLeaderboards ==
    /\ rpc = "start"
    /\ \E boards \in [1..NumStages -> BoardSlots] : leaderboard_results' = boards
    /\ rpc' = "ranks"
    /\ UNCHANGED <<ranks, stage_idx, driver_results, stage_results>>
    /\ UNCHANGED nonrvars

\* Lines 107-131: the world ranks, users x leaderboards.
GetRanks ==
    /\ rpc = "ranks"
    /\ \E batch \in RankBatches : ranks' = batch
    /\ rpc' = "loop"
    /\ UNCHANGED <<leaderboard_results, stage_idx, driver_results, stage_results>>
    /\ UNCHANGED nonrvars

\* Lines 134-164, one iteration that runs to its end.
PairStage ==
    /\ rpc = "loop"
    /\ stage_idx < NumStages
    /\ LET s == stage_idx + 1
           leaderboard == leaderboard_results[s]
       IN  /\ leaderboard.ok
           /\ LET paired == PairEntries(driver_results,
                                        SortByRank(leaderboard.entries),
                                        sorted_world_ranks(ranks, s), s)
              IN  /\ ~paired.panicked
                  /\ driver_results' = paired.dr
           /\ stage_idx' = s
    /\ UNCHANGED <<rpc, leaderboard_results, ranks, stage_results>>
    /\ UNCHANGED nonrvars

\* Lines 134-164, one iteration that panics: leaderboard.unwrap() on a slot
\* without a leaderboard, or next().unwrap() on the exhausted world ranks.
PairStagePanic ==
    /\ rpc = "loop"
    /\ stage_idx < NumStages
    /\ LET s == stage_idx + 1
           leaderboard == leaderboard_results[s]
       IN  \/ ~leaderboard.ok
           \/ /\ leaderboard.ok
              /\ PairEntries(driver_results, SortByRank(leaderboard.entries),
                             sorted_world_ranks(ranks, s), s).panicked
    /\ rpc' = "panic"
    /\ UNCHANGED <<leaderboard_results, ranks, stage_idx, driver_results, stage_results>>
    /\ UNCHANGED nonrvars

\* Lines 166-187.
Assemble ==
    /\ rpc = "loop"
    /\ stage_idx = NumStages
    /\ stage_results' = [s \in 1..NumStages |-> StageRows(driver_results, s)]
    /\ rpc' = "done"
    /\ UNCHANGED <<leaderboard_results, ranks, stage_idx, driver_results>>
    /\ UNCHANGED nonrvars

ResolveNext ==
    \/ GetLeaderboards
    \/ GetRanks
    \/ PairStage
    \/ PairStagePanic
    \/ Assemble

\* ---------------------------------------------------- resolver properties
Users == 1..NumUsers
Stages == 1..NumStages
WorldRank(u, s) == ranks[RankIndex(u, s)]
Ranked(s) == {u \in Users : WorldRank(u, s).ok}
Entries(s) == leaderboard_results[s].entries
ResultOf(name, s) ==
    IF name \in DOMAIN driver_results THEN driver_results[name][s] ELSE NoResult
\* stages whose loop iteration has finished
Paired == 1..stage_idx

\* position of user u among the drivers of stage s by world rank, and of
\* row e among the rows of stage s by local rank
WorldPos(u, s) ==
    Cardinality({w \in Ranked(s) : WorldRank(w, s).rank < WorldRank(u, s).rank}) + 1
LocalPos(e, s) ==
    Cardinality({x \in 1..Len(Entries(s)) : Entries(s)[x].rank < Entries(s)[e].rank}) + 1
Outcomes(s) == {n \in NameSet : ResultOf(n, s).some}

\* C7: on a stage where every configured driver has a world rank, the row
\* with the i-th smallest local rank is given to the driver with the i-th
\* smallest world rank, and the outcome stores that driver's world rank.
C7_PairsByRankOrder ==
    \A s \in Paired :
        Ranked(s) = Users =>
            \A e \in 1..Len(Entries(s)) :
                \E u \in Users :
                    /\ WorldPos(u, s) = LocalPos(e, s)
                    /\ ResultOf(user_names[u], s)
                         = StageResult(Entries(s)[e], WorldRank(u, s).rank)

C7_Witness ==
    /\ rpc = "done"
    /\ WorldRank(1, 1) = OkRank(3)
    /\ WorldRank(2, 1) = OkRank(1)
    /\ WorldRank(3, 1) = OkRank(2)
    /\ Len(Entries(1)) = 3
    /\ Entries(1)[1].rank = 2
    /\ ResultOf("b", 1).local_rank = 1
    /\ ResultOf("c", 1).local_rank = 2
    /\ ResultOf("a", 1).local_rank = 3

\* C8: a driver without a world rank on a stage gets no outcome on that
\* stage, and every outcome of the stage carries the world rank of the
\* driver it is filed under.
C8_FailedRankExcluded ==
    \A s \in Paired : \A u \in Users :
        /\ ~WorldRank(u, s).ok => ~ResultOf(user_names[u], s).some
        /\ ResultOf(user_names[u], s).some =>
               /\ WorldRank(u, s).ok
               /\ ResultOf(user_names[u], s).world_rank = WorldRank(u, s).rank

\* C29: once the rank batch is there, the answer for user u on stage s is
\* at index (u - 1) * S + s (u * S + s counting from 0), chunking by S
\* gives one chunk per user whose s-th element is that answer, and a rank
\* in it is paired with the u-th configured name.
C29_RankBatchByUser ==
    ranks # <<>> =>
        /\ Len(ranks) = Len(rank_urls)
        /\ Len(chunks_exact(ranks, NumStages)) = NumUsers
        /\ \A u \in Users : \A s \in Stages :
              /\ rank_urls[(u - 1) * NumStages + s] = [user |-> u, board |-> s]
              /\ chunks_exact(ranks, NumStages)[u][s] = ranks[(u - 1) * NumStages + s]
              /\ ranks[(u - 1) * NumStages + s].ok =>
                    \E i \in 1..Len(ZippedWorldRanks(ranks, s)) :
                       ZippedWorldRanks(ranks, s)[i] =
                          [rank |-> ranks[(u - 1) * NumStages + s].rank,
                           name |-> user_names[u]]

\* C9: when the number of rows differs from the number of drivers with a
\* world rank, pairing stops at the shorter list and the call completes:
\* no panic on a stage whose leaderboard was fetched, and min(rows, ranked)
\* outcomes on every finished stage.
C9_StopsAtShorter ==
    /\ rpc = "panic" => ~leaderboard_results[stage_idx + 1].ok
    /\ \A s \in Paired :
          Cardinality(Outcomes(s)) = Min2(Len(Entries(s)), Cardinality(Ranked(s)))

\* C10: a stage whose leaderboard fetch failed does not abort the call; it
\* contributes no outcomes.
C10_FailedBoardSkipped ==
    /\ rpc = "panic" => leaderboard_results[stage_idx + 1].ok
    /\ \A s \in Paired : ~leaderboard_results[s].ok => Outcomes(s) = {}

\* C11: on every stage the pairing loop has finished, the local ranks of
\* the resolved outcomes are exactly 1..N, N the number of rows of the
\* stage's leaderboard, one outcome per row, and each outcome's local_rank is
\* the position of its row in the rank-sorted response.
C11_LocalRanksPermutation ==
    \A s \in Paired :
        /\ Cardinality(Outcomes(s)) = Len(Entries(s))
        /\ {ResultOf(n, s).local_rank : n \in Outcomes(s)} = 1..Len(Entries(s))
        /\ \A n \in Outcomes(s) :
              \E e \in 1..Len(Entries(s)) :
                  /\ LocalPos(e, s) = ResultOf(n, s).local_rank
                  /\ Entries(s)[e].score = ResultOf(n, s).time_ms

C11_Witness ==
    /\ rpc = "done"
    /\ Len(Entries(1)) = 3
    /\ Entries(1)[1].rank = 3
    /\ Len(Entries(2)) = 2
    /\ \E n \in Outcomes(2) : ResultOf(n, 2).world_rank # ResultOf(n, 2).local_rank

\* C12: every per-driver outcome array has one position per stage of the
\* rally, position s holds the outcome the driver was paired with on stage s
\* and "no outcome" on every stage where the driver was not paired.
PairedResult(n, s) ==
    LET wrs == sorted_world_ranks(ranks, s)
        es == SortByRank(Entries(s))
        hits == {i \in 1..Min2(Len(es), Len(wrs)) : wrs[i].name = n}
    IN  IF s \in Paired /\ hits # {}
        THEN LET i == CHOOSE i \in hits : TRUE IN StageResult(es[i], wrs[i].rank)
        ELSE NoResult

C12_OneSlotPerStageInOrder ==
    rpc \in {"loop", "done"} =>
        \A n \in DOMAIN driver_results :
            /\ Len(driver_results[n]) = NumStages
            /\ \A s \in Stages : driver_results[n][s] = PairedResult(n, s)

C12_Witness ==
    /\ rpc = "done"
    /\ Len(Entries(1)) # Len(Entries(2))
    /\ \E n \in DOMAIN driver_results :
          ~driver_results[n][1].some /\ driver_results[n][2].some
    /\ \E n \in DOMAIN driver_results :
          driver_results[n][1].some /\ driver_results[n][2].some

\* ============================================ split_times, fastest_times
\* bounds of the classifier's inputs
MaxStages == 3
MaxDrivers == 3
MaxTime == 2

\* Option<usize>
OptNone == <<>>
OptSome(x) == <<x>>

RECURSIVE Sum(_)
Sum(seq) == IF seq = <<>> THEN 0 ELSE Head(seq) + Sum(Tail(seq))

\* A stage outcome as the classifier reads it: only its presence and its
\* time matter to split_times and fastest_times.
TimedResult(t) ==
    [some |-> TRUE, car |-> 1, time_ms |-> t, local_rank |-> 1, world_rank |-> 1]
StageOutcomes == {NoResult} \cup {TimedResult(t) : t \in 1..MaxTime}

\* RallyResults: n stages, k drivers, one outcome array of length n per
\* driver (stage_results plays no part in the classifier).
DriverNames == <<"a", "b", "c", "d", "e", "f">>
RallyOf(n, k, f) ==
    [stages |-> [i \in 1..n |-> i],
     driver_results |-> [d \in 1..k |-> [name |-> DriverNames[d], stages |-> f[d]]]]

\* Lines 215-218, 231: the present times of a driver, in stage order.
PresentTimes(driver) ==
    Flatten([i \in 1..Len(driver.stages) |->
                IF driver.stages[i].some THEN <<driver.stages[i].time_ms>> ELSE <<>>])

\* Line 231.
total_time_last_only(driver) ==
    IF PresentTimes(driver) = <<>> THEN 0
    ELSE PresentTimes(driver)[Len(PresentTimes(driver))]
total_time(driver) == Sum(PresentTimes(driver))

\* Line 232.
finished(driver) == Len(PresentTimes(driver))

\* Line 233.
is_full(driver) == finished(driver) = Len(driver.stages)

\* Lines 235-242.
FullTime(driver) ==
    [total_time |-> total_time(driver),
     user_name |-> driver.name,
     stage_times |-> [i \in 1..Len(driver.stages) |-> driver.stages[i].time_ms],
     local_rank |-> [i \in 1..Len(driver.stages) |-> driver.stages[i].local_rank],
     world_rank |-> [i \in 1..Len(driver.stages) |-> driver.stages[i].world_rank],
     cars |-> [i \in 1..Len(driver.stages) |-> driver.stages[i].car]]

\* Lines 244-252; world_rank is flattened, so it holds the present ones only.
PartialTime(driver) ==
    [finished_stages |-> finished(driver),
     total_time |-> total_time(driver),
     user_name |-> driver.name,
     stage_times |-> [i \in 1..Len(driver.stages) |->
                        IF driver.stages[i].some THEN OptSome(driver.stages[i].time_ms) ELSE OptNone],
     local_rank |-> [i \in 1..Len(driver.stages) |->
                        IF driver.stages[i].some THEN OptSome(driver.stages[i].local_rank) ELSE OptNone],
     world_rank |-> Flatten([i \in 1..Len(driver.stages) |->
                        IF driver.stages[i].some THEN <<driver.stages[i].world_rank>> ELSE <<>>]),
     cars |-> [i \in 1..Len(driver.stages) |->
                        IF driver.stages[i].some THEN OptSome(driver.stages[i].car) ELSE OptNone]]

\* Line 255: full_times.sort_by_key(|ft| ft.total_time), a stable sort.
SortFullTiesReversed(fts) ==
    LET rev == [i \in 1..Len(fts) |-> fts[Len(fts) + 1 - i]]
    IN  Vals(SortKeyed([i \in 1..Len(rev) |-> [key |-> rev[i].total_time, val |-> rev[i]]]))
SortFull(fts) ==
    Vals(SortKeyed([i \in 1..Len(fts) |-> [key |-> fts[i].total_time, val |-> fts[i]]]))

\* Lines 257-261: the comparator of partial_times.sort_by.
PartialLessByTotal(a, b) == a.total_time < b.total_time
PartialLess(a, b) ==
    \/ a.finished_stages > b.finished_stages
    \/ a.finished_stages = b.finished_stages /\ a.total_time < b.total_time

RECURSIVE InsertPartial(_, _)
InsertPartial(x, sorted) ==
    IF sorted = <<>> THEN <<x>>
    ELSE IF PartialLess(x, Head(sorted)) THEN <<x>> \o sorted
    ELSE <<Head(sorted)>> \o InsertPartial(x, Tail(sorted))

RECURSIVE SortPartial(_)
SortPartial(pts) ==
    IF pts = <<>> THEN <<>>
    ELSE InsertPartial(pts[Len(pts)], SortPartial(SubSeq(pts, 1, Len(pts) - 1)))

\* Lines 210-263.
split_times(r) ==
    LET ds == r.driver_results
    IN  [full |-> SortFull(Flatten([d \in 1..Len(ds) |->
                     IF is_full(ds[d]) THEN <<FullTime(ds[d])>> ELSE <<>>])),
         partial |-> SortPartial(Flatten([d \in 1..Len(ds) |->
                     IF is_full(ds[d]) THEN <<>> ELSE <<PartialTime(ds[d])>>]))]

SetMin(S) == CHOOSE x \in S : \A y \in S : x <= y
SetMax(S) == CHOOSE x \in S : \A y \in S : x >= y

\* Line 269: full_times.iter().map(|ft| ft.total_time).min()
SlowestTotal(fts) ==
    IF fts = <<>> THEN OptNone
    ELSE OptSome(SetMax({fts[i].total_time : i \in 1..Len(fts)}))
FastestTotal(fts) ==
    IF fts = <<>> THEN OptNone
    ELSE OptSome(SetMin({fts[i].total_time : i \in 1..Len(fts)}))

\* Lines 277-283: one step of the per-stage fold.
KeepFirst(time, fastest_time) ==
    IF ~time.some THEN fastest_time
    ELSE IF fastest_time = OptNone THEN OptSome(time.time_ms)
    ELSE fastest_time
FoldFastest(time, fastest_time) ==
    IF ~time.some THEN fastest_time
    ELSE IF fastest_time = OptNone THEN OptSome(time.time_ms)
    ELSE OptSome(Min2(fastest_time[1], time.time_ms))

\* Lines 270-285: driver by driver, stage by stage; zip stops at the shorter
\* of the driver's stages and fastest_per_stage.
RECURSIVE FastestPerStage(_, _)
FastestPerStage(ds, acc) ==
    IF ds = <<>> THEN acc
    ELSE FastestPerStage(Tail(ds),
            [i \in 1..Len(acc) |->
                IF i <= Len(Head(ds).stages)
                THEN FoldFastest(Head(ds).stages[i], acc[i]) ELSE acc[i]])

\* Lines 265-287.
fastest_times(fts, r) ==
    [total |-> FastestTotal(fts),
     per_stage |-> FastestPerStage(r.driver_results,
                                   [i \in 1..Len(r.stages) |-> OptNone])]

NoRally == [stages |-> <<>>, driver_results |-> <<>>]

ClassifyIdle ==
    /\ cpc = "off"
    /\ rally = NoRally
    /\ full_times = <<>>
    /\ partial_times = <<>>
    /\ fastest_total = OptNone
    /\ fastest_per_stage = <<>>

ClassifyInit ==
    /\ cpc = "load"
    /\ rally = NoRally
    /\ full_times = <<>>
    /\ partial_times = <<>>
    /\ fastest_total = OptNone
    /\ fastest_per_stage = <<>>

\* The caller holds the results of one rally.
LoadRally ==
    /\ cpc = "load"
    /\ \E n \in 1..MaxStages, k \in 0..MaxDrivers :
         \E f \in [1..k -> [1..n -> StageOutcomes]] : rally' = RallyOf(n, k, f)
    /\ cpc' = "start"
    /\ UNCHANGED <<full_times, partial_times, fastest_total, fastest_per_stage>>
    /\ UNCHANGED noncvars

\* let (full_times, partial_times) = split_times(&results);
SplitTimes ==
    /\ cpc = "start"
    /\ full_times' = split_times(rally).full
    /\ partial_times' = split_times(rally).partial
    /\ cpc' = "split"
    /\ UNCHANGED <<rally, fastest_total, fastest_per_stage>>
    /\ UNCHANGED noncvars

\* let (fastest_total, fastest_stages) = fastest_times(&full_times, &results);
FastestTimes ==
    /\ cpc = "split"
    /\ fastest_total' = fastest_times(full_times, rally).total
    /\ fastest_per_stage' = fastest_times(full_times, rally).per_stage
    /\ cpc' = "done"
    /\ UNCHANGED <<rally, full_times, partial_times>>
    /\ UNCHANGED noncvars

ClassifyNext ==
    \/ LoadRally
    \/ SplitTimes
    \/ FastestTimes

\* -------------------------------------------------- classifier properties
Drivers == 1..Len(rally.driver_results)
DriverAt(d) == rally.driver_results[d]
StageCount == Len(rally.stages)
Present(d) == {i \in 1..StageCount : DriverAt(d).stages[i].some}
RECURSIVE SumTimes(_, _)
SumTimes(d, i) ==
    IF i = 0 THEN 0
    ELSE SumTimes(d, i - 1) + (IF i \in Present(d) THEN DriverAt(d).stages[i].time_ms ELSE 0)
ExpectedTotal(d) == SumTimes(d, StageCount)
FullNames == {full_times[i].user_name : i \in 1..Len(full_times)}
PartialNames == {partial_times[i].user_name : i \in 1..Len(partial_times)}
\* index of a name in the input driver list
InputIndex(name) == CHOOSE d \in Drivers : DriverAt(d).name = name
Split == cpc \in {"split", "done"}

C14_TotalsAndCounts ==
    Split =>
        /\ \A i \in 1..Len(full_times) :
              full_times[i].total_time = ExpectedTotal(InputIndex(full_times[i].user_name))
        /\ \A i \in 1..Len(partial_times) :
              LET d == InputIndex(partial_times[i].user_name)
              IN  /\ partial_times[i].total_time = ExpectedTotal(d)
                  /\ partial_times[i].finished_stages = Cardinality(Present(d))

C14_Witness ==
    /\ Split
    /\ \E i \in 1..Len(full_times) : full_times[i].total_time = 2 * MaxTime + 1
    /\ \E i \in 1..Len(partial_times) :
          /\ partial_times[i].finished_stages = 2
          /\ partial_times[i].total_time = 3
          /\ partial_times[i].stage_times[1] = OptNone

\* C15: the full list is ascending by total_time, and drivers with equal
\* total_time are in their input order.
C15_FullSortedStable ==
    Split =>
        \A i, j \in 1..Len(full_times) :
            i < j =>
                /\ full_times[i].total_time <= full_times[j].total_time
                /\ full_times[i].total_time = full_times[j].total_time
                      => InputIndex(full_times[i].user_name) < InputIndex(full_times[j].user_name)

C15_Witness ==
    /\ Split
    /\ Len(full_times) = 3
    /\ full_times[1].total_time < full_times[2].total_time
    /\ full_times[2].total_time = full_times[3].total_time
    /\ InputIndex(full_times[1].user_name) = 3

\* C16: the partial list is descending by finished_stages, and ascending by
\* total_time among drivers with equal finished_stages.
C16_PartialSorted ==
    Split =>
        \A i, j \in 1..Len(partial_times) :
            i < j =>
                \/ partial_times[i].finished_stages > partial_times[j].finished_stages
                \/ /\ partial_times[i].finished_stages = partial_times[j].finished_stages
                   /\ partial_times[i].total_time <= partial_times[j].total_time

C16_Witness ==
    /\ Split
    /\ Len(partial_times) = 3
    /\ partial_times[1].finished_stages = 2
    /\ partial_times[2].finished_stages = 1
    /\ partial_times[3].finished_stages = 1
    /\ partial_times[1].total_time > partial_times[3].total_time
    /\ partial_times[2].total_time < partial_times[3].total_time
    /\ InputIndex(partial_times[1].user_name) = 3

\* C17: fastest_total is the minimum total over the drivers with an outcome
\* on every stage, and none when there is no such driver.
FullDrivers == {d \in Drivers : Cardinality(Present(d)) = StageCount}

C17_FastestTotal ==
    cpc = "done" =>
        /\ FullDrivers = {} => fastest_total = OptNone
        /\ FullDrivers # {} =>
              /\ fastest_total # OptNone
              /\ \E d \in FullDrivers : fastest_total = OptSome(ExpectedTotal(d))
              /\ \A d \in FullDrivers : fastest_total[1] <= ExpectedTotal(d)

C17_Witness ==
    /\ cpc = "done"
    /\ Cardinality(FullDrivers) = 2
    /\ \E d, e \in FullDrivers : ExpectedTotal(d) < ExpectedTotal(e)
    /\ \E d \in Drivers \ FullDrivers : ExpectedTotal(d) < fastest_total[1]

\* C18: fastest_per_stage has one entry per stage; entry i is the minimum
\* time over all drivers, full or partial, with an outcome at stage i, and
\* none when no driver has one (so with no outcome at all, fastest_total and
\* every entry are none).
WithOutcome(i) == {d \in Drivers : i \in Present(d)}

C18_FastestPerStage ==
    cpc = "done" =>
        /\ Len(fastest_per_stage) = StageCount
        /\ \A i \in 1..StageCount :
              /\ WithOutcome(i) = {} => fastest_per_stage[i] = OptNone
              /\ WithOutcome(i) # {} =>
                    /\ fastest_per_stage[i] # OptNone
                    /\ \E d \in WithOutcome(i) :
                          fastest_per_stage[i] = OptSome(DriverAt(d).stages[i].time_ms)
                    /\ \A d \in WithOutcome(i) :
                          fastest_per_stage[i][1] <= DriverAt(d).stages[i].time_ms
        /\ (\A i \in 1..StageCount : WithOutcome(i) = {}) =>
              /\ fastest_total = OptNone
              /\ \A i \in 1..StageCount : fastest_per_stage[i] = OptNone

C18_Witness ==
    /\ cpc = "done"
    /\ StageCount = 3
    /\ FullDrivers # {}
    /\ \E d \in Drivers \ FullDrivers :
          /\ 1 \in Present(d)
          /\ fastest_per_stage[1] = OptSome(DriverAt(d).stages[1].time_ms)
          /\ \A e \in FullDrivers : DriverAt(e).stages[1].time_ms > DriverAt(d).stages[1].time_ms
          /\ DriverAt(d).name = DriverNames[3]

\* ================================================================== report
\* main.rs: main downloads the current Db, reads the latest stored one, and
\* report diffs the two into the NotificationTable.
MaxDiffTime == 2

\* main, lines 727-728: the drivers a configuration may name, and the
\* (stage, group, weather) identities a rally may list.
diff_user_names == <<"a", "b", "c">>
StageIds == <<"s1", "s2">>

\* The local rank get_rally_results stores with a time: the position of the
\* entry on the stage's leaderboard, which is ordered by time (0 = no time).
LocalRankIn(times, d, s) ==
    1 + Cardinality({e \in DOMAIN times :
            /\ times[e][s] # 0
            /\ \/ times[e][s] < times[d][s]
               \/ times[e][s] = times[d][s] /\ e < d})

DiffOutcome(times, d, s) ==
    IF times[d][s] = 0 THEN NoResult
    ELSE [some |-> TRUE, car |-> 1, time_ms |-> times[d][s],
          local_rank |-> LocalRankIn(times, d, s),
          world_rank |-> LocalRankIn(times, d, s)]

\* RallyResults as get_rally_results returns them: a driver is listed when
\* at least one stage paired an entry with the name, in name order.
ResultsOf(stages, times) ==
    [stages |-> stages,
     driver_results |-> Flatten([d \in DOMAIN times |->
         IF \E s \in 1..Len(stages) : times[d][s] # 0
         THEN <<[name |-> diff_user_names[d],
                 stages |-> [s \in 1..Len(stages) |-> DiffOutcome(times, d, s)]]>>
         ELSE <<>>])]

\* struct Db, lines 264-271, with one rally (platform and the user lists
\* play no part in report).
DbOf(r, times) ==
    [rallys |-> <<r>>, results |-> <<ResultsOf(r.stages, times)>>]

\* What one run of the program is configured with: get_default_rallys is
\* compiled in, the users are read from art-of-rally.toml (main, lines
\* 720-728). Configurations differ in the stages the rally lists, in the
\* stage at a position, in the title, or in the number of users.
Configs ==
    {[users |-> 2, rally |-> [title |-> "r1", stages |-> <<StageIds[1]>>]],
     [users |-> 2, rally |-> [title |-> "r1", stages |-> StageIds]],
     [users |-> 2, rally |-> [title |-> "r1", stages |-> <<StageIds[2]>>]],
     [users |-> 2, rally |-> [title |-> "r2", stages |-> <<StageIds[1]>>]],
     [users |-> 3, rally |-> [title |-> "r1", stages |-> <<StageIds[1]>>]]}

\* The times the leaderboards hold for k users on n stages (0 = none).
DiffTimes(k, n) == [1..k -> [1..n -> 0..MaxDiffTime]]

\* enum Row, lines 52-94 (prev is 0 in the variants that have no prev field;
\* active is a field of Unchanged only).
Row(kind, rank, name, time, prev_time) ==
    [kind |-> kind, rank |-> rank, name |-> name, time |-> time,
     prev |-> prev_time, active |-> FALSE]

\* enum Row, lines 52-94, and lines 358-364: no variant has a field for the
\* drivers passed and report computes none, so a row carries none.
passed(row) == {}

\* Lines 304-311: the previous results of the rally with the same title.
find_prev_results(p, title) ==
    IF p = OptNone THEN OptNone
    ELSE LET n == Min2(Len(p[1].rallys), Len(p[1].results))
             hits == {i \in 1..n : p[1].rallys[i].title = title}
         IN  IF hits = {} THEN OptNone ELSE OptSome(p[1].results[SetMin(hits)])

\* Lines 325-330: the previous outcome array of the driver with this name.
find_prev_stages(prev_results, name) ==
    IF prev_results = OptNone THEN OptNone
    ELSE LET ds == prev_results[1].driver_results
             hits == {i \in 1..Len(ds) : ds[i].name = name}
         IN  IF hits = {} THEN OptNone ELSE OptSome(ds[SetMin(hits)].stages)

\* Line 331: stages[stage_idx] panics when the previous array is shorter.
IndexOutOfBounds(prev_results, name, i) ==
    /\ find_prev_stages(prev_results, name) # OptNone
    /\ i > Len(find_prev_stages(prev_results, name)[1])

\* Lines 324-331.
prev_stage_result(prev_results, name, i) ==
    IF find_prev_stages(prev_results, name) = OptNone THEN NoResult
    ELSE find_prev_stages(prev_results, name)[1][i]

\* Lines 332-388: the row of one driver on one stage.
StageRowTimeNotWorse(name, time, rank, psr) ==
    LET time_increased == psr.some /\ time <= psr.time_ms
        rank_increased == psr.some /\ rank < psr.local_rank
        rank_same == psr.some /\ rank = psr.local_rank
        rank_decreased == psr.some /\ rank > psr.local_rank
    IN  IF ~psr.some THEN Row("FirstTime", rank, name, time, 0)
        ELSE IF time_increased /\ rank_increased
             THEN Row("TimeImprovedRankIncreased", rank, name, time, psr.time_ms)
        ELSE IF time_increased /\ rank_same
             THEN Row("TimeImproved", rank, name, time, psr.time_ms)
        ELSE IF time_increased /\ rank_decreased
             THEN Row("TimeImprovedRankDecreased", rank, name, time, psr.time_ms)
        ELSE IF rank_decreased THEN Row("RankDecreased", rank, name, time, 0)
        ELSE Row("Unchanged", rank, name, time, 0)
StageRow(name, time, rank, psr) ==
    LET time_increased == psr.some /\ time < psr.time_ms
        rank_increased == psr.some /\ rank < psr.local_rank
        rank_same == psr.some /\ rank = psr.local_rank
        rank_decreased == psr.some /\ rank > psr.local_rank
    IN  IF ~psr.some THEN Row("FirstTime", rank, name, time, 0)
        ELSE IF time_increased /\ rank_increased
             THEN Row("TimeImprovedRankIncreased", rank, name, time, psr.time_ms)
        ELSE IF time_increased /\ rank_same
             THEN Row("TimeImproved", rank, name, time, psr.time_ms)
        ELSE IF time_increased /\ rank_decreased
             THEN Row("TimeImprovedRankDecreased", rank, name, time, psr.time_ms)
        ELSE IF rank_decreased THEN Row("RankDecreased", rank, name, time, 0)
        ELSE Row("Unchanged", rank, name, time, 0)

\* FullTime.total_local_rank, read at lines 401-413: the place of the driver
\* in the list of full times, which split_times sorts by total time.
total_local_rank(fts, i) == i

\* Lines 393, 396: fts.iter().find(|ft| ft.user_name == &driver.name), as
\* the index of the first hit (0 = none).
find_full_time(fts, name) ==
    LET hits == {i \in 1..Len(fts) : fts[i].user_name = name}
    IN  IF hits = {} THEN 0 ELSE SetMin(hits)

\* Lines 405-445: the row of one driver on the rally.
TotalRow(name, time, rank, prev_time, prev_rank) ==
    LET time_increased == time < prev_time
        rank_increased == rank < prev_rank
        rank_same == rank = prev_rank
        rank_decreased == rank > prev_rank
    IN  IF time_increased /\ rank_increased
        THEN Row("TimeImprovedRankIncreased", rank, name, time, prev_time)
        ELSE IF time_increased /\ rank_same
             THEN Row("TimeImproved", rank, name, time, prev_time)
        ELSE IF time_increased /\ rank_decreased
             THEN Row("TimeImprovedRankDecreased", rank, name, time, prev_time)
        ELSE IF rank_decreased THEN Row("RankDecreased", rank, name, time, 0)
        ELSE Row("Unchanged", rank, name, time, 0)

\* (Vec<Row>, IndexMap<StageName, Vec<Row>>)::default()
NoRows == [rally |-> <<>>, stages |-> EmptyMap, order |-> <<>>]

\* table.entry(rally.title.clone()).or_default()
EntryOf(tbl, title) == IF title \in DOMAIN tbl THEN tbl[title] ELSE NoRows

WithEntry(tbl, title, e) ==
    [t \in DOMAIN tbl \cup {title} |-> IF t = title THEN e ELSE tbl[t]]

\* Lines 347-355: add_stage_row.
AddStageRow(tbl, title, stage_name, row) ==
    LET e == EntryOf(tbl, title)
        rows == IF stage_name \in DOMAIN e.stages THEN e.stages[stage_name] ELSE <<>>
    IN  WithEntry(tbl, title,
            [e EXCEPT !.stages = [s \in DOMAIN e.stages \cup {stage_name} |->
                IF s = stage_name THEN Append(rows, row) ELSE e.stages[s]],
                      !.order = IF stage_name \in DOMAIN e.stages THEN @
                                ELSE Append(@, stage_name)])

\* Line 390: add_row of the rally scope.
AddRow(tbl, title, row) ==
    LET e == EntryOf(tbl, title)
    IN  WithEntry(tbl, title, [e EXCEPT !.rally = Append(e.rally, row)])

\* Lines 315-389: the stages of one driver, from stage i on.
RECURSIVE StageLoop(_, _, _, _, _)
StageLoop(tbl, r, driver, prev_results, i) ==
    IF i > Min2(Len(r.stages), Len(driver.stages)) THEN tbl
    ELSE IF ~driver.stages[i].some THEN StageLoop(tbl, r, driver, prev_results, i + 1)
    ELSE StageLoop(
            AddStageRow(tbl, r.title, r.stages[i],
                StageRow(driver.name, driver.stages[i].time_ms,
                         driver.stages[i].local_rank,
                         prev_stage_result(prev_results, driver.name, i))),
            r, driver, prev_results, i + 1)

\* Lines 391-397.
PrevFullTimes(prev_results) ==
    IF prev_results = OptNone THEN <<>> ELSE split_times(prev_results[1]).full

\* Line 399: panic!("user disappeared?")
UserDisappeared(fts, prev_fts, name) ==
    /\ find_full_time(prev_fts, name) # 0
    /\ find_full_time(fts, name) = 0

\* Lines 390-446: the rally scope of one driver; fts and prev_fts are
\* split_times(results).0 and prev_results.map(|r| split_times(r).0).
TotalStep(tbl, r, fts, prev_fts, name) ==
    LET p == find_full_time(prev_fts, name)
        c == find_full_time(fts, name)
    IN  IF c = 0 THEN tbl
        ELSE IF p = 0
             THEN AddRow(tbl, r.title,
                     Row("FirstTime", total_local_rank(fts, c), name,
                         fts[c].total_time, 0))
        ELSE AddRow(tbl, r.title,
                 TotalRow(name, fts[c].total_time, total_local_rank(fts, c),
                          prev_fts[p].total_time, total_local_rank(prev_fts, p)))

\* Lines 314-447: the drivers of one rally, from driver d on.
RECURSIVE DriverLoop(_, _, _, _, _, _, _)
DriverLoop(tbl, r, results, prev_results, fts, prev_fts, d) ==
    IF d > Len(results.driver_results) THEN tbl
    ELSE DriverLoop(
            TotalStep(StageLoop(tbl, r, results.driver_results[d], prev_results, 1),
                      r, fts, prev_fts, results.driver_results[d].name),
            r, results, prev_results, fts, prev_fts, d + 1)

\* Lines 302-448: the rallies of the current Db, from rally k on.
RECURSIVE RallyLoop(_, _, _, _)
RallyLoop(tbl, cur, p, k) ==
    IF k > Min2(Len(cur.rallys), Len(cur.results)) THEN tbl
    ELSE LET prev_results == find_prev_results(p, cur.rallys[k].title)
             fts == split_times(cur.results[k]).full
             prev_fts == PrevFullTimes(prev_results)
         IN  RallyLoop(
                DriverLoop(tbl, cur.rallys[k], cur.results[k], prev_results,
                           fts, prev_fts, 1),
                cur, p, k + 1)

\* The loop of lines 302-448 panics at line 331 or at line 399.
LoopPanics(cur, p) ==
    \E k \in 1..Min2(Len(cur.rallys), Len(cur.results)) :
       LET r == cur.rallys[k]
           results == cur.results[k]
           prev_results == find_prev_results(p, r.title)
           fts == split_times(results).full
           prev_fts == PrevFullTimes(prev_results)
       IN  \E d \in 1..Len(results.driver_results) :
              LET driver == results.driver_results[d]
              IN  \/ \E i \in 1..Min2(Len(r.stages), Len(driver.stages)) :
                        /\ driver.stages[i].some
                        /\ IndexOutOfBounds(prev_results, driver.name, i)
                  \/ UserDisappeared(fts, prev_fts, driver.name)

\* Lines 450-461: sort_and_activate_rows of one list. rows.len() - 1 is
\* computed in usize: on an empty list it overflows (a panic in a debug
\* build) or wraps, and then split_at_mut(1) panics.
SortPanicsOn(rows) == Len(rows) = 0

\* Line 451: rows.sort_by_key(Row::rank), a stable sort.
SortRows(rows) ==
    Vals(SortKeyed([i \in 1..Len(rows) |-> [key |-> rows[i].rank, val |-> rows[i]]]))

\* Lines 453-460: an Unchanged row right before a row of another variant
\* is made active.
ActivateAll(rows) ==
    [i \in 1..Len(rows) |->
        IF rows[i].kind = "Unchanged" THEN [rows[i] EXCEPT !.active = TRUE]
        ELSE rows[i]]
Activate(rows) ==
    [i \in 1..Len(rows) |->
        IF /\ i < Len(rows)
           /\ rows[i].kind = "Unchanged"
           /\ rows[i + 1].kind # "Unchanged"
        THEN [rows[i] EXCEPT !.active = TRUE]
        ELSE rows[i]]

sort_and_activate_rows(rows) == Activate(SortRows(rows))

\* Lines 462-469: every rally list, then every stage list.
SortPanics(tbl) ==
    \E t \in DOMAIN tbl :
       \/ SortPanicsOn(tbl[t].rally)
       \/ \E s \in DOMAIN tbl[t].stages : SortPanicsOn(tbl[t].stages[s])

SortTable(tbl) ==
    [t \in DOMAIN tbl |->
        [tbl[t] EXCEPT !.rally = sort_and_activate_rows(@),
                       !.stages = [s \in DOMAIN @ |-> sort_and_activate_rows(@[s])]]]

\* Row::message, lines 123-199: the line of a row, if it has one. The mark
\* is the first character after the indent; the padding of the name is not
\* part of the model.
Mark(kind) ==
    CASE kind = "FirstTime" -> ">"
      [] kind = "TimeImprovedRankIncreased" -> "^"
      [] kind = "TimeImproved" -> "~"
      [] kind = "TimeImprovedRankDecreased" -> "v"
      [] kind = "RankDecreased" -> "v"
      [] kind = "Unchanged" -> " "

RowMessage(row, indent) ==
    IF row.kind = "Unchanged" /\ ~row.active THEN OptNone
    ELSE OptSome([text |-> "row", indent |-> indent, mark |-> Mark(row.kind),
                  rank |-> row.rank, name |-> row.name, time |-> row.time,
                  delta |-> IF row.prev = 0 THEN 0 ELSE row.prev - row.time])

\* Lines 222-227, 235-241: the lines of the rows of one list.
RowLines(rows, indent) ==
    Flatten([i \in 1..Len(rows) |-> RowMessage(rows[i], indent)])

\* Row::is_unchanged over a list.
AllUnchanged(rows) == \A i \in 1..Len(rows) : rows[i].kind = "Unchanged"

\* Lines 214-218: rally.iter().chain(stages.values().flatten()).all(..)
RallyUnchanged(e) ==
    /\ AllUnchanged(e.rally)
    /\ \A s \in DOMAIN e.stages : AllUnchanged(e.stages[s])

\* Lines 229-243: the section of one stage.
StageSectionNoSkip(stage, rows) ==
    <<[text |-> "stage", name |-> stage]>> \o RowLines(rows, 4)
StageSection(stage, rows) ==
    IF AllUnchanged(rows) THEN <<>>
    ELSE <<[text |-> "stage", name |-> stage]>> \o RowLines(rows, 4)

\* Lines 212-244: the section of one rally.
RallySection(title, e) ==
    IF RallyUnchanged(e) THEN <<>>
    ELSE <<[text |-> "rally", name |-> title]>>
         \o RowLines(e.rally, 2)
         \o Flatten([k \in 1..Len(e.order) |->
                StageSection(e.order[k], e.stages[e.order[k]])])

\* The keys of the table in insertion order (a Db of this model holds one
\* rally, so the table has at most one).
Keys(tbl) == IF DOMAIN tbl = {} THEN <<>> ELSE <<CHOOSE t \in DOMAIN tbl : TRUE>>

\* Line 220: rally.iter().map(..).max().unwrap() panics on an empty list.
NotifyPanics(tbl) ==
    \E t \in DOMAIN tbl : ~RallyUnchanged(tbl[t]) /\ tbl[t].rally = <<>>

\* send_notification, lines 204-262: the message posted, if one is.
send_notification(tbl) ==
    IF \A t \in DOMAIN tbl : RallyUnchanged(tbl[t]) THEN OptNone
    ELSE OptSome(Flatten([k \in 1..Len(Keys(tbl)) |->
                    RallySection(Keys(tbl)[k], tbl[Keys(tbl)[k]])]))

\* Line 695: if prev.is_some() { send_notification(&table, webhook_url); }
NotifyAlways(p, tbl) == send_notification(tbl)
Notify(p, tbl) == IF p # OptNone THEN send_notification(tbl) ELSE OptNone

\* ron::to_string and ron::from_str of a Db (derived Serialize, Deserialize).
ron_to_string(d) == [ron |-> d]
ron_from_str(text) == text.ron

\* main, lines 733-741: the order of the two statements that touch data/.
main_order_write_first == <<"write", "read_prev">>
main_order == <<"read_prev", "write">>

\* The position at which a statement of main_order runs, and the one it
\* leaves main at.
Before(step) == IF main_order[1] = step THEN "downloaded" ELSE main_order[1]
After(step) == IF main_order[Len(main_order)] = step THEN "ready" ELSE step

MaxRuns == 3

NoDb == [rallys |-> <<>>, results |-> <<>>]

DiffIdle ==
    /\ dpc = "off"
    /\ db = NoDb
    /\ prev = OptNone
    /\ table = EmptyMap
    /\ now = 0
    /\ data_paths = {}
    /\ data_last = OptNone
    /\ prev_path = OptNone
    /\ message = OptNone

\* The first run of the program: data/ is empty (line 725 creates it).
DiffInit ==
    /\ dpc = "start"
    /\ db = NoDb
    /\ prev = OptNone
    /\ table = EmptyMap
    /\ now = 1
    /\ data_paths = {}
    /\ data_last = OptNone
    /\ prev_path = OptNone
    /\ message = OptNone

\* main, lines 727-731: db = download(..)? for the configured rally.
Download ==
    /\ dpc = "start"
    /\ \E c \in Configs :
         \E times \in DiffTimes(c.users, Len(c.rally.stages)) :
            db' = DbOf(c.rally, times)
    /\ dpc' = "downloaded"
    /\ UNCHANGED <<prev, table, now, data_paths, data_last, prev_path, message>>
    /\ UNCHANGED nondvars

\* main, lines 733-739: the last of the sorted paths under data/, if there
\* is one, is read into prev.
ReadPrev ==
    /\ dpc = Before("read_prev")
    /\ prev_path' = IF data_paths = {} THEN OptNone ELSE OptSome(SetMax(data_paths))
    /\ prev' = IF data_paths = {} THEN OptNone
               ELSE OptSome(ron_from_str(data_last[1]))
    /\ dpc' = After("read_prev")
    /\ UNCHANGED <<db, table, now, data_paths, data_last, message>>
    /\ UNCHANGED nondvars

\* main, line 741: std::fs::write(format!("data/{ts}.ron"), ..)
Persist ==
    /\ dpc = Before("write")
    /\ data_paths' = data_paths \cup {now}
    /\ data_last' = IF \A path \in data_paths : path <= now
                    THEN OptSome(ron_to_string(db)) ELSE data_last
    /\ dpc' = After("write")
    /\ UNCHANGED <<db, prev, table, now, prev_path, message>>
    /\ UNCHANGED nondvars

\* report, lines 300-448: the table is filled.
ReportLoop ==
    /\ dpc = "ready"
    /\ ~LoopPanics(db, prev)
    /\ table' = RallyLoop(EmptyMap, db, prev, 1)
    /\ dpc' = "reported"
    /\ UNCHANGED <<db, prev, now, data_paths, data_last, prev_path, message>>
    /\ UNCHANGED nondvars

\* report, lines 331 and 399: the thread panics, nothing is reported.
ReportPanic ==
    /\ dpc = "ready"
    /\ LoopPanics(db, prev)
    /\ dpc' = "panic"
    /\ UNCHANGED <<db, prev, table, now, data_paths, data_last, prev_path, message>>
    /\ UNCHANGED nondvars

\* report, lines 450-469: every list is sorted and its rows activated.
SortAndActivate ==
    /\ dpc = "reported"
    /\ ~SortPanics(table)
    /\ table' = SortTable(table)
    /\ dpc' = "sorted"
    /\ UNCHANGED <<db, prev, now, data_paths, data_last, prev_path, message>>
    /\ UNCHANGED nondvars

\* report, line 453: the thread panics on an empty list.
SortPanic ==
    /\ dpc = "reported"
    /\ SortPanics(table)
    /\ dpc' = "panic"
    /\ UNCHANGED <<db, prev, table, now, data_paths, data_last, prev_path, message>>
    /\ UNCHANGED nondvars

\* report, lines 693-697 (the pages written at 471-691 and 699-715 are not
\* part of this model).
SendNotification ==
    /\ dpc = "sorted"
    /\ IF prev # OptNone /\ NotifyPanics(table)
       THEN dpc' = "panic" /\ message' = message
       ELSE dpc' = "done" /\ message' = Notify(prev, table)
    /\ UNCHANGED <<db, prev, table, now, data_paths, data_last, prev_path>>
    /\ UNCHANGED nondvars

\* The program is started again, later: only data/ is kept.
NextRun ==
    /\ dpc \in {"done", "panic"}
    /\ now < MaxRuns
    /\ now' = now + 1
    /\ dpc' = "start"
    /\ db' = NoDb
    /\ prev' = OptNone
    /\ table' = EmptyMap
    /\ prev_path' = OptNone
    /\ message' = OptNone
    /\ UNCHANGED <<data_paths, data_last>>
    /\ UNCHANGED nondvars

DiffNext ==
    \/ Download \/ ReadPrev \/ Persist \/ ReportLoop \/ ReportPanic
    \/ SortAndActivate \/ SortPanic \/ SendNotification \/ NextRun

\* ------------------------------------------------------- report properties
CurRally == db.rallys[1]
CurResults == db.results[1]
CurDrivers == 1..Len(CurResults.driver_results)
CurDriver(d) == CurResults.driver_results[d]

PrevRallyHits ==
    IF prev = OptNone THEN {}
    ELSE {k \in 1..Len(prev[1].rallys) : prev[1].rallys[k].title = CurRally.title}
PrevRally == prev[1].rallys[SetMin(PrevRallyHits)]
PrevResults == prev[1].results[SetMin(PrevRallyHits)]
PrevDriverHits(name) ==
    IF PrevRallyHits = {} THEN {}
    ELSE {e \in 1..Len(PrevResults.driver_results) :
            PrevResults.driver_results[e].name = name}
PrevDriver(name) == PrevResults.driver_results[SetMin(PrevDriverHits(name))]

\* The driver has a previous entry on stage s: the previous snapshot has
\* the rally, the same stage at position s, the driver, and an outcome.
HasPrevEntry(name, s) ==
    /\ PrevDriverHits(name) # {}
    /\ s <= Len(PrevRally.stages)
    /\ PrevRally.stages[s] = CurRally.stages[s]
    /\ s <= Len(PrevDriver(name).stages)
    /\ PrevDriver(name).stages[s].some

\* The classification of (time, rank) against (prev_time, prev_rank).
\* ImprovedTimeRankUp / Same / Down are the Row variants
\* TimeImprovedRankIncreased / TimeImproved / TimeImprovedRankDecreased,
\* RankDown is RankDecreased.
ExpectedKind(time, rank, prev_time, prev_rank) ==
    CASE time < prev_time /\ rank < prev_rank -> "TimeImprovedRankIncreased"
      [] time < prev_time /\ rank = prev_rank -> "TimeImproved"
      [] time < prev_time /\ rank > prev_rank -> "TimeImprovedRankDecreased"
      [] ~(time < prev_time) /\ rank > prev_rank -> "RankDecreased"
      [] OTHER -> "Unchanged"

Improved == {"TimeImprovedRankIncreased", "TimeImproved", "TimeImprovedRankDecreased"}

StageScope(s) ==
    IF CurRally.title \in DOMAIN table
       /\ CurRally.stages[s] \in DOMAIN table[CurRally.title].stages
    THEN table[CurRally.title].stages[CurRally.stages[s]] ELSE <<>>
RallyScope ==
    IF CurRally.title \in DOMAIN table THEN table[CurRally.title].rally ELSE <<>>

RowsOf(rows, name) == {i \in 1..Len(rows) : rows[i].name = name}

\* The one row of the driver in the scope is the expected one.
OneRow(rows, name, time, rank, prev_time, prev_rank) ==
    /\ Cardinality(RowsOf(rows, name)) = 1
    /\ \A i \in RowsOf(rows, name) :
          /\ rows[i].kind = ExpectedKind(time, rank, prev_time, prev_rank)
          /\ rows[i].rank = rank
          /\ rows[i].time = time
          /\ rows[i].kind \in Improved => rows[i].prev = prev_time

\* Full results of a snapshot's rally, by the sum of the stage times: the
\* drivers with an outcome on every stage, and the place of one of them.
IsFullIn(driver) == \A s \in 1..Len(driver.stages) : driver.stages[s].some
TotalOf(driver) == Sum([s \in 1..Len(driver.stages) |-> driver.stages[s].time_ms])
PlaceIn(results, name) == find_full_time(split_times(results).full, name)

\* C20: when report has filled the table, every driver with a current
\* outcome and a previous entry on a stage has exactly one row in that
\* stage's list, and every driver with a full result now and before has
\* exactly one row in the rally's list; the row is TimeImprovedRankIncreased,
\* TimeImproved or TimeImprovedRankDecreased when the time is below the
\* previous one and the rank is below, equal to or above the previous one,
\* RankDecreased when the time is not below and the rank is above, and
\* Unchanged otherwise; it carries the current rank and time, and the three
\* improved variants carry the previous time.
C20_ClassifiedAgainstPrevious ==
    dpc = "reported" =>
        \A d \in CurDrivers :
           /\ \A s \in 1..Len(CurRally.stages) :
                 (CurDriver(d).stages[s].some /\ HasPrevEntry(CurDriver(d).name, s)) =>
                    OneRow(StageScope(s), CurDriver(d).name,
                           CurDriver(d).stages[s].time_ms,
                           CurDriver(d).stages[s].local_rank,
                           PrevDriver(CurDriver(d).name).stages[s].time_ms,
                           PrevDriver(CurDriver(d).name).stages[s].local_rank)
           /\ (/\ IsFullIn(CurDriver(d))
               /\ PrevDriverHits(CurDriver(d).name) # {}
               /\ IsFullIn(PrevDriver(CurDriver(d).name))) =>
                    OneRow(RallyScope, CurDriver(d).name,
                           TotalOf(CurDriver(d)),
                           PlaceIn(CurResults, CurDriver(d).name),
                           TotalOf(PrevDriver(CurDriver(d).name)),
                           PlaceIn(PrevResults, CurDriver(d).name))

\* A driver went from (time 2, rank 2) to (time 1, rank 1) on the first
\* stage and has the TimeImprovedRankIncreased row with prev = 2, the driver
\* who lost the place has a RankDecreased row, and the rally's list holds a
\* row of a driver who had a full result before.
C20_Witness ==
    /\ dpc = "reported"
    /\ \E i \in 1..Len(StageScope(1)) :
          /\ StageScope(1)[i].kind = "TimeImprovedRankIncreased"
          /\ StageScope(1)[i].time = 1
          /\ StageScope(1)[i].rank = 1
          /\ StageScope(1)[i].prev = 2
          /\ HasPrevEntry(StageScope(1)[i].name, 1)
          /\ PrevDriver(StageScope(1)[i].name).stages[1].local_rank = 2
    /\ \E i \in 1..Len(StageScope(1)) : StageScope(1)[i].kind = "RankDecreased"
    /\ \E i \in 1..Len(RallyScope) : RallyScope[i].kind \in Improved

\* C21: when report has filled the table, every driver with a current
\* outcome on a stage and no previous entry for that stage (no previous
\* snapshot, no rally of that title in it, driver not in that rally, or no
\* outcome of the driver for that stage) has a FirstTime row in the stage's
\* list, with the current rank and time.
C21_NewEntrant ==
    dpc = "reported" =>
        \A d \in CurDrivers : \A s \in 1..Len(CurRally.stages) :
           (CurDriver(d).stages[s].some /\ ~HasPrevEntry(CurDriver(d).name, s)) =>
              /\ Cardinality(RowsOf(StageScope(s), CurDriver(d).name)) = 1
              /\ \A i \in RowsOf(StageScope(s), CurDriver(d).name) :
                    /\ StageScope(s)[i].kind = "FirstTime"
                    /\ StageScope(s)[i].rank = CurDriver(d).stages[s].local_rank
                    /\ StageScope(s)[i].time = CurDriver(d).stages[s].time_ms

\* The other drivers whose current rank on stage s lies in [lo, hi).
RankedWithin(s, name, lo, hi) ==
    {CurDriver(e).name : e \in {e \in CurDrivers :
        /\ CurDriver(e).name # name
        /\ CurDriver(e).stages[s].some
        /\ CurDriver(e).stages[s].local_rank >= lo
        /\ CurDriver(e).stages[s].local_rank < hi}}

\* C22: when report has filled the table, the row of a driver whose rank on
\* a stage went down from prev_rank to new_rank carries as passed drivers
\* exactly the other drivers whose current rank on that stage lies in
\* [new_rank, prev_rank).
C22_PassedList ==
    dpc = "reported" =>
        \A d \in CurDrivers : \A s \in 1..Len(CurRally.stages) :
           (/\ CurDriver(d).stages[s].some
            /\ HasPrevEntry(CurDriver(d).name, s)
            /\ CurDriver(d).stages[s].local_rank
                  < PrevDriver(CurDriver(d).name).stages[s].local_rank) =>
              \A i \in RowsOf(StageScope(s), CurDriver(d).name) :
                 passed(StageScope(s)[i]) =
                    RankedWithin(s, CurDriver(d).name,
                                 CurDriver(d).stages[s].local_rank,
                                 PrevDriver(CurDriver(d).name).stages[s].local_rank)

\* C23: when report has filled the table, a driver with a current outcome
\* on a stage, whose name is in the previous rally of the same title while
\* that rally's stage at the same position is another stage, is treated as
\* having no previous entry: the row is FirstTime.
C23_StageIdentity ==
    dpc = "reported" =>
        \A d \in CurDrivers : \A s \in 1..Len(CurRally.stages) :
           (/\ CurDriver(d).stages[s].some
            /\ PrevDriverHits(CurDriver(d).name) # {}
            /\ s <= Len(PrevRally.stages)
            /\ PrevRally.stages[s] # CurRally.stages[s]) =>
              \A i \in RowsOf(StageScope(s), CurDriver(d).name) :
                 StageScope(s)[i].kind = "FirstTime"

\* The lists of the table: the rally's list and the list of every stage.
StageKeys == IF CurRally.title \in DOMAIN table
             THEN DOMAIN table[CurRally.title].stages ELSE {}
Lists == (IF CurRally.title \in DOMAIN table THEN {RallyScope} ELSE {})
         \cup {table[CurRally.title].stages[k] : k \in StageKeys}

RankSorted(rows) ==
    \A i, j \in 1..Len(rows) : i < j => rows[i].rank <= rows[j].rank

\* The row at i is Unchanged and the row right after it is not.
BeforeChange(rows, i) ==
    /\ rows[i].kind = "Unchanged"
    /\ i < Len(rows)
    /\ rows[i + 1].kind # "Unchanged"

\* The rows of a list that have an output line: <<rank, name>> of each.
Shown(rows) ==
    Flatten([i \in 1..Len(rows) |->
        IF rows[i].kind # "Unchanged" \/ BeforeChange(rows, i)
        THEN <<(<<rows[i].rank, rows[i].name>>)>> ELSE <<>>])

\* The row lines that follow line h of the message, up to the next heading.
RECURSIVE LinesAfter(_, _)
LinesAfter(msg, h) ==
    IF h + 1 > Len(msg) \/ msg[h + 1].text # "row" THEN <<>>
    ELSE <<(<<msg[h + 1].rank, msg[h + 1].name>>)>> \o LinesAfter(msg, h + 1)

\* The list a heading of the message stands for.
ListOf(heading) ==
    IF heading.text = "rally" THEN RallyScope
    ELSE table[CurRally.title].stages[heading.name]

Headings(msg, text) == {msg[h].name : h \in {h \in 1..Len(msg) : msg[h].text = text}}

\* C25: when report has returned, a stage list whose rows are all Unchanged
\* has no heading in the message, and so no line; a rally list whose rows
\* are all Unchanged has no line under the rally's title; and when the rows
\* of every list are Unchanged no message is sent.
C25_UnchangedScopeSilent ==
    dpc = "done" =>
        /\ message # OptNone =>
              /\ \A k \in StageKeys :
                    AllUnchanged(table[CurRally.title].stages[k]) =>
                       k \notin Headings(message[1], "stage")
              /\ \A h \in 1..Len(message[1]) :
                    (message[1][h].text = "rally" /\ AllUnchanged(RallyScope)) =>
                       LinesAfter(message[1], h) = <<>>
        /\ (\A rows \in Lists : AllUnchanged(rows)) => message = OptNone

\* A message was sent that has the heading of one stage, while the rows of
\* another stage and of the rally's list are all Unchanged.
C25_Witness ==
    /\ dpc = "done"
    /\ message # OptNone
    /\ Headings(message[1], "stage") # {}
    /\ \E k \in StageKeys :
          /\ AllUnchanged(table[CurRally.title].stages[k])
          /\ k \notin Headings(message[1], "stage")
    /\ RallyScope # <<>>
    /\ AllUnchanged(RallyScope)

\* C26: report never panics, whatever the current results and the stored
\* snapshot are.
C26_ReportNeverPanics == dpc # "panic"

\* The files that runs before this one have written.
EarlierPaths == {path \in data_paths : path < now}

\* C27: the file read into prev is never the one this run writes: it is the
\* last of the files written by earlier runs, and once main has both read
\* and written, prev is there exactly when an earlier run wrote a file.
C27_BaselineIsEarlierSnapshot ==
    /\ prev_path # OptNone =>
          /\ prev_path[1] # now
          /\ prev_path[1] \in EarlierPaths
          /\ \A path \in EarlierPaths : path <= prev_path[1]
          /\ prev # OptNone
    /\ prev_path = OptNone => prev = OptNone
    /\ dpc \in {"ready", "reported", "sorted", "done"} =>
          /\ now \in data_paths
          /\ (prev # OptNone) = (EarlierPaths # {})

\* The third run has read the file of the second run, not that of the
\* first, and has written its own snapshot, which differs from the one read.
C27_Witness ==
    /\ dpc = "ready"
    /\ now = 3
    /\ data_paths = {1, 2, 3}
    /\ prev_path = OptSome(2)
    /\ prev # OptNone
    /\ prev[1] # db
    /\ data_last = OptSome(ron_to_string(db))

\* C28: a table entry whose rally list is empty (some driver has a stage
\* outcome, no driver has a full result) goes through post-processing
\* without a panic, and the list stays empty.
C28_EmptyRallyListSurvives ==
    (table # EmptyMap /\ RallyScope = <<>>) => dpc # "panic"

\* C30: a message is sent only when a snapshot was read into prev and some
\* row of the table is not Unchanged; a run without a stored snapshot sends
\* none, whatever its rows are.
C30_NoNotificationWithoutPrevious ==
    /\ message # OptNone =>
          /\ prev # OptNone
          /\ \E rows \in Lists : ~AllUnchanged(rows)
    /\ (dpc = "done" /\ prev = OptNone) => message = OptNone

\* A first run has returned from report with FirstTime rows in the table
\* and has sent nothing.
C30_Witness ==
    /\ dpc = "done"
    /\ prev = OptNone
    /\ message = OptNone
    /\ RallyScope # <<>>
    /\ \A i \in 1..Len(RallyScope) : RallyScope[i].kind = "FirstTime"
    /\ \E k \in StageKeys : table[CurRally.title].stages[k][1].kind = "FirstTime"

FetchIdle ==
    /\ pc = "off"
    /\ urls = <<>>
    /\ cache = FALSE
    /\ responses = <<>>
    /\ handles = <<>>
    /\ progress = 0
    /\ pending = {}
    /\ active = {}
    /\ msgs = <<>>
    /\ running = FALSE
    /\ ret = "none"
    /\ arrivals = <<>>
    /\ server = [u \in GoodUrls |-> [kind |-> "json", v |-> 1]]
    /\ disk = [u \in GoodUrls |-> NoFile]

Init == FetchInit /\ ResolveIdle /\ ClassifyIdle /\ DiffIdle
Next == FetchNext
Spec == Init /\ [][Next]_vars

InitResolve == ResolveInit /\ FetchIdle /\ ClassifyIdle /\ DiffIdle
NextResolve == ResolveNext
SpecResolve == InitResolve /\ [][NextResolve]_vars

InitClassify == ClassifyInit /\ FetchIdle /\ ResolveIdle /\ DiffIdle
NextClassify == ClassifyNext
SpecClassify == InitClassify /\ [][NextClassify]_vars

InitDiff == DiffInit /\ FetchIdle /\ ResolveIdle /\ ClassifyIdle
NextDiff == DiffNext
SpecDiff == InitDiff /\ [][NextDiff]_vars
====
